---------------------------- MODULE Spec2Model ----------------------------
(***************************************************************************)
(* The typewriter engine of the interactive-learning platform:             *)
(* TypewriterText (one string, character by character), TypewriterSection  *)
(* (a list of paragraphs, one TypewriterText at a time, with a thinking    *)
(* pause) and TypewriterCodeExample, hosted by the typewriter ConceptPage. *)
(*                                                                         *)
(* One action is a timer callback or a click together with the React      *)
(* renders, commits and effects it causes, until no update is queued       *)
(* (React batches the state updates of a task and renders the updates an   *)
(* effect makes in a task of its scheduler, ahead of the timers the commit *)
(* armed). One render is an action of its own: that of the updates the     *)
(* ConceptPage's effect on activeSection queues, because the commit before *)
(* it shows a section under the flags of the section shown before.         *)
(* Timers are untimed: a pending timer may fire at any moment. A section   *)
(* keeps the sum of the delays of the timers that drove it (clock): its    *)
(* timers are set one after the other, each in the callback of the one     *)
(* before, so the sum is the time at which ideal timers get it there.      *)
(*                                                                         *)
(* Spec and FairSpec are the ConceptPage; HostSpec and InvalidHostSpec are *)
(* a TypewriterSection on a host page that hands it props the ConceptPage  *)
(* does not use; CodeHostSpec is a TypewriterCodeExample whose host        *)
(* changes example.code; FormatSpec is contentToParagraphs on sample       *)
(* contents; DemoSpec is the TypewriterDemo page; QuizSpec is the          *)
(* QuizSection of the ConceptPage.                                         *)
(***************************************************************************)
EXTENDS Integers, Sequences, FiniteSets, TLC

(* ------------------------------ bounds ------------------------------- *)

\* number of sections of the concept on the page
NumSections == 2

\* longest paragraph list handed to a TypewriterSection
MaxParas == 2

\* longest paragraph, in characters
MaxLen == 2

\* longest code example, in characters
MaxCodeLen == 2

\* most timers of one kind that may be pending at once where the code sets
\* no limit (copy-feedback timers, timers of unmounted instances)
MaxPending == 1

(* --------------------------- program constants ----------------------- *)

\* ConceptPage: setTimeout(() => setContentLoaded(true), 100)
ContentLoadDelay == 100

\* TypewriterSection: thinking timer
ThinkingDuration == 1500

\* TypewriterText: default of the delay prop
DefaultDelay == 0

\* the props ConceptPage passes to TypewriterSection and TypewriterCodeExample
ConceptPageProps ==
  [speed |-> 5, paragraphDelay |-> 300, showThinking |-> TRUE,
   codeSpeed |-> 1, codeDelay |-> 500]

(* ------------------------------ content ------------------------------ *)

Letters ==
  <<"A", "B", "C", "D", "E", "F", "G", "H", "I", "J", "K", "L", "M",
    "N", "O", "P", "Q", "R", "S", "T", "U", "V", "W", "X", "Y", "Z">>

\* the first paragraph of the sample content is one character long, the
\* others MaxLen characters
ParaLen(i) == IF i = 1 THEN 1 ELSE MaxLen

RECURSIVE ParaStart(_)
ParaStart(i) == IF i = 1 THEN 1 ELSE ParaStart(i - 1) + ParaLen(i - 1)

\* "A", "BC", "DE", ... (a string is a sequence of characters)
Paragraph(i) == SubSeq(Letters, ParaStart(i), ParaStart(i) + ParaLen(i) - 1)

\* the paragraph lists contentToParagraphs may hand over: <<>>, <<"A">>, <<"A","BC">>, ...
Contents == { [i \in 1..n |-> Paragraph(i)] : n \in 0..MaxParas }

\* the code of the sample code example, MaxCodeLen characters: "ZY"
CodeText == [k \in 1..MaxCodeLen |-> Letters[27 - k]]

NoCode == [present |-> FALSE, code |-> << >>]

CodeExamples == { [present |-> TRUE, code |-> CodeText] }

\* ConceptSection: content (already split into paragraphs) and optional codeExample
SectionData == [content : Contents, codeExample : {NoCode} \cup CodeExamples]

\* the sample concepts: every section has the same paragraphs; the sections
\* at odd positions and those at even positions each have, or lack, the code
\* example
Concepts ==
  { [i \in 1..NumSections |->
       [content |-> c, codeExample |-> IF i % 2 = 1 THEN e[1] ELSE e[2]]] :
    c \in Contents, e \in ({NoCode} \cup CodeExamples) \X ({NoCode} \cup CodeExamples) }

(* ------------------------------- timers ------------------------------ *)

NoTimer == [pending |-> FALSE, delay |-> 0, idx |-> 0]

\* setTimeout(f, d): the time the timer takes; a negative d counts as 0
TimeoutDelay(d) == IF d < 0 THEN 0 ELSE d

\* a pending setTimeout: its delay and the index its callback closed over
Timer(d, i) == [pending |-> TRUE, delay |-> TimeoutDelay(d), idx |-> i]

TimerKinds == {"reveal", "thinking", "paragraph", "cursorStop", "codeReveal", "copy", "content"}

NoOrphans == [k \in TimerKinds |-> 0]

VARIABLES
  concept,            \* concept.sections of the page (data)
  props,              \* props handed to the typewriter components
  pageMounted,        \* a ConceptPage instance is mounted
  activeSection,      \* ConceptPage state, 0-based
  completedSections,  \* ConceptPage state, set of section ids (1-based positions)
  quizStarted,        \* ConceptPage state
  contentLoaded,      \* ConceptPage state
  textCompleted,      \* ConceptPage state
  contentTimer,       \* ConceptPage: the pending 100ms timer
  sec,                \* the TypewriterSection instance, NoSection when none is mounted
  txt,                \* the TypewriterText instance of the current paragraph
  code,               \* the TypewriterCodeExample instance
  orphan,             \* per kind, timers still pending whose instance is unmounted
  disposed,           \* history: per component, while no instance of it is
                      \* mounted, the phase in which the last one was unmounted
  fmt,                \* a call of contentToParagraphs: its argument and result
  demo,               \* the TypewriterDemo page
  quiz                \* the QuizSection instance

vars == <<concept, props, pageMounted, activeSection, completedSections,
          quizStarted, contentLoaded, textCompleted, contentTimer,
          sec, txt, code, orphan, disposed, fmt, demo, quiz>>

\* no call of contentToParagraphs is under way
NoFormat == [content |-> << >>, returned |-> FALSE, paragraphs |-> << >>]

\* no TypewriterDemo page is open
NoDemo == [mounted |-> FALSE, activeDemo |-> "null", replayTimers |-> << >>,
           lastClick |-> "null"]

\* no QuizSection is mounted
NoQuiz ==
  [mounted |-> FALSE, quiz |-> << >>, currentQuestion |-> 0, selectedAnswer |-> -1,
   showResult |-> FALSE, score |-> 0, answers |-> << >>, exiting |-> FALSE,
   submits |-> << >>, completions |-> 0]

\* the parts of the program a specification does not run
Elsewhere == fmt = NoFormat /\ demo = NoDemo /\ quiz = NoQuiz


(* ------------------------- component instances ----------------------- *)

\* TypewriterSection before it was ever mounted; besides the component's
\* state: the timers it owns, how often it called onComplete (completions)
\* and left the thinking state (readies), the time its timers have taken
\* since it was mounted (clock, in ms) and what it has shown and reported
\* since then (events)
NoSection ==
  [mounted |-> FALSE, content |-> << >>, currentParagraph |-> 0,
   completedParagraphs |-> << >>, isThinking |-> FALSE,
   thinkingTimer |-> NoTimer, paraTimers |-> 0, completions |-> 0,
   readies |-> 0, clock |-> 0, events |-> << >>]

\* TypewriterText before it was ever mounted
NoText ==
  [mounted |-> FALSE, para |-> 0, text |-> << >>, cursor |-> FALSE,
   displayedText |-> << >>, currentIndex |-> 0, isComplete |-> FALSE,
   showCursor |-> TRUE, revealTimer |-> NoTimer, stopTimers |-> 0,
   completions |-> 0]

\* TypewriterCodeExample before it was ever mounted; besides the component's
\* state: how often it called onComplete (completions) and how often its
\* example.code was changed (changes)
NoCodeInstance ==
  [mounted |-> FALSE, example |-> << >>, displayedCode |-> << >>,
   currentIndex |-> 0, isComplete |-> FALSE, copied |-> FALSE,
   revealTimer |-> NoTimer, copyTimers |-> 0, completions |-> 0,
   changes |-> 0]

\* the mutable state as one record, so that handlers compose as functions
World ==
  [pageMounted |-> pageMounted, activeSection |-> activeSection,
   completedSections |-> completedSections, quizStarted |-> quizStarted,
   contentLoaded |-> contentLoaded, textCompleted |-> textCompleted,
   contentTimer |-> contentTimer, sec |-> sec, txt |-> txt, code |-> code,
   orphan |-> orphan, disposed |-> disposed]

\* where a TypewriterText stands
TextPhase(t) ==
  IF t.isComplete THEN "complete"
  ELSE IF t.currentIndex = 0 THEN "start" ELSE "revealing"

\* where a TypewriterSection stands
SectionPhase(s) ==
  IF s.isThinking THEN "thinking"
  ELSE IF s.completions > 0 THEN "complete"
  ELSE IF s.paraTimers > 0 THEN "delay" ELSE "revealing"

\* where a TypewriterCodeExample stands
CodePhase(c) ==
  IF c.isComplete THEN "complete"
  ELSE IF c.currentIndex = 0 THEN "start" ELSE "revealing"

NothingDisposed == [txt |-> "none", sec |-> "none", code |-> "none"]

\* the section ConceptPage shows: concept.sections[activeSection]
CurrentSection(w) == concept[w.activeSection + 1]

(* --------------------------- ConceptPage callbacks ------------------- *)

\* handleCodeComplete: logs only
handleCodeComplete(w) == w

\* TypewriterCodeExample, cleanup of the reveal effect: clearTimeout(timer)
CodeRevealCleanup(w) == [w EXCEPT !.code.revealTimer = NoTimer]

\* TypewriterCodeExample, one run of the reveal effect
CodeRevealEffect(w) ==
  LET c == w.code IN
  IF c.currentIndex < Len(c.example)
  THEN [w EXCEPT !.code.revealTimer =
          Timer(IF c.currentIndex = 0 THEN props.codeDelay ELSE props.codeSpeed,
                c.currentIndex)]
  ELSE IF ~c.isComplete
       THEN handleCodeComplete([w EXCEPT !.code.isComplete = TRUE,
                                         !.code.completions = @ + 1])
       ELSE w

\* the reveal effect and its re-run when isComplete, one of its dependencies, changed
RunCodeRevealEffect(w) ==
  LET w1 == CodeRevealEffect(CodeRevealCleanup(w)) IN
  IF w1.code.isComplete # w.code.isComplete
  THEN CodeRevealEffect(CodeRevealCleanup(w1))
  ELSE w1

\* unmount of a TypewriterCodeExample: the effect cleanups run; a timer no
\* cleanup cleared stays pending without an instance
DisposeCode(w) ==
  IF ~w.code.mounted THEN w
  ELSE LET w1 == CodeRevealCleanup(w) IN
       [w1 EXCEPT !.code = NoCodeInstance,
                  !.disposed.code = CodePhase(w.code),
                  !.orphan.codeReveal = @ + (IF w1.code.revealTimer.pending THEN 1 ELSE 0),
                  !.orphan.copy = @ + w1.code.copyTimers]

\* mount of a TypewriterCodeExample: initial state, then the reset effect
\* (which restates the initial state) and the reveal effect
MountCode(w) ==
  RunCodeRevealEffect(
    [w EXCEPT !.code = [NoCodeInstance EXCEPT
                          !.mounted = TRUE,
                          !.example = CurrentSection(w).codeExample.code],
              !.disposed.code = "none"])

\* ConceptPage render: {codeExample && textCompleted && <TypewriterCodeExample/>}
RenderCode(w) ==
  LET wanted == /\ w.pageMounted
                /\ ~w.quizStarted
                /\ CurrentSection(w).codeExample.present
                /\ w.textCompleted
  IN IF wanted /\ ~w.code.mounted THEN MountCode(w)
     ELSE IF ~wanted /\ w.code.mounted THEN DisposeCode(w)
     ELSE w

\* handleTypewriterComplete: setTextCompleted(true), and the render it causes
handleTypewriterComplete(w) == RenderCode([w EXCEPT !.textCompleted = TRUE])

(* --------------------------- TypewriterSection ----------------------- *)

\* mutant of handleParagraphComplete: the next paragraph is made current at
\* once, without the inter-paragraph setTimeout
handleParagraphComplete_NoDelay(w) ==
  LET s  == w.sec
      w1 == [w EXCEPT !.sec.completedParagraphs = Append(@, s.currentParagraph)]
  IN IF s.currentParagraph < Len(s.content) - 1
     THEN [w1 EXCEPT !.sec.currentParagraph = @ + 1]
     ELSE handleTypewriterComplete([w1 EXCEPT !.sec.completions = @ + 1])

\* mutant of handleParagraphComplete: the bound is content.length, one too far
handleParagraphComplete_OffByOne(w) ==
  LET s  == w.sec
      w1 == [w EXCEPT !.sec.completedParagraphs = Append(@, s.currentParagraph)]
  IN IF s.currentParagraph < Len(s.content)
     THEN [w1 EXCEPT !.sec.paraTimers = @ + 1]
     ELSE handleTypewriterComplete([w1 EXCEPT !.sec.completions = @ + 1])

\* mutant of handleParagraphComplete: the timer towards the next paragraph is
\* set after the last paragraph too
handleParagraphComplete_AdvancesPastLast(w) ==
  LET s  == w.sec
      w1 == [w EXCEPT !.sec.completedParagraphs = Append(@, s.currentParagraph),
                      !.sec.paraTimers = @ + 1]
  IN IF s.currentParagraph < Len(s.content) - 1
     THEN w1
     ELSE handleTypewriterComplete([w1 EXCEPT !.sec.completions = @ + 1])

\* handleParagraphComplete
handleParagraphComplete(w) ==
  LET s  == w.sec
      w1 == [w EXCEPT !.sec.completedParagraphs = Append(@, s.currentParagraph)]
  IN IF s.currentParagraph < Len(s.content) - 1
     THEN [w1 EXCEPT !.sec.paraTimers = @ + 1]
     ELSE handleTypewriterComplete([w1 EXCEPT !.sec.completions = @ + 1])

(* ----------------------------- TypewriterText ------------------------ *)

\* mutant of RevealCleanup: the effect returns no cleanup
RevealCleanup_NoClear(w) == w

\* cleanup of the reveal effect: clearTimeout(timer)
RevealCleanup(w) == [w EXCEPT !.txt.revealTimer = NoTimer]

\* mutant of RevealEffect: completion is not guarded by !isComplete
RevealEffect_NoCompleteGuard(w) ==
  LET t == w.txt IN
  IF t.currentIndex < Len(t.text)
  THEN [w EXCEPT !.txt.revealTimer =
          Timer(IF t.currentIndex = 0 THEN DefaultDelay ELSE props.speed,
                t.currentIndex)]
  ELSE LET w1 == handleParagraphComplete(
                   [w EXCEPT !.txt.isComplete = TRUE,
                             !.txt.completions = @ + 1])
       IN IF t.cursor THEN [w1 EXCEPT !.txt.stopTimers = @ + 1] ELSE w1

\* mutant of RevealEffect: the text counts as complete one character early
RevealEffect_CompletesEarly(w) ==
  LET t == w.txt IN
  IF t.currentIndex < Len(t.text) - 1
  THEN [w EXCEPT !.txt.revealTimer =
          Timer(IF t.currentIndex = 0 THEN DefaultDelay ELSE props.speed,
                t.currentIndex)]
  ELSE IF ~t.isComplete
       THEN LET w1 == handleParagraphComplete(
                        [w EXCEPT !.txt.isComplete = TRUE,
                                  !.txt.completions = @ + 1])
            IN IF t.cursor THEN [w1 EXCEPT !.txt.stopTimers = @ + 1] ELSE w1
       ELSE w

\* mutant of RevealEffect: the first character waits for speed, not delay
RevealEffect_SpeedForFirst(w) ==
  LET t == w.txt IN
  IF t.currentIndex < Len(t.text)
  THEN [w EXCEPT !.txt.revealTimer = Timer(props.speed, t.currentIndex)]
  ELSE IF ~t.isComplete
       THEN LET w1 == handleParagraphComplete(
                        [w EXCEPT !.txt.isComplete = TRUE,
                                  !.txt.completions = @ + 1])
            IN IF t.cursor THEN [w1 EXCEPT !.txt.stopTimers = @ + 1] ELSE w1
       ELSE w

\* mutant of RevealEffect: every character waits for delay, not speed
RevealEffect_DelayForEvery(w) ==
  LET t == w.txt IN
  IF t.currentIndex < Len(t.text)
  THEN [w EXCEPT !.txt.revealTimer = Timer(DefaultDelay, t.currentIndex)]
  ELSE IF ~t.isComplete
       THEN LET w1 == handleParagraphComplete(
                        [w EXCEPT !.txt.isComplete = TRUE,
                                  !.txt.completions = @ + 1])
            IN IF t.cursor THEN [w1 EXCEPT !.txt.stopTimers = @ + 1] ELSE w1
       ELSE w

\* one run of the reveal effect
RevealEffect(w) ==
  LET t == w.txt IN
  IF t.currentIndex < Len(t.text)
  THEN [w EXCEPT !.txt.revealTimer =
          Timer(IF t.currentIndex = 0 THEN DefaultDelay ELSE props.speed,
                t.currentIndex)]
  ELSE IF ~t.isComplete
       THEN LET w1 == handleParagraphComplete(
                        [w EXCEPT !.txt.isComplete = TRUE,
                                  !.txt.completions = @ + 1])
            IN IF t.cursor THEN [w1 EXCEPT !.txt.stopTimers = @ + 1] ELSE w1
       ELSE w

\* the reveal effect and its re-run when its dependencies isComplete and
\* onComplete changed (completion re-renders the section, which hands a new
\* handleParagraphComplete to the text)
RunRevealEffect(w) ==
  LET w1 == RevealEffect(RevealCleanup(w)) IN
  IF w1.txt.isComplete # w.txt.isComplete
  THEN RevealEffect(RevealCleanup(w1))
  ELSE w1

\* unmount of a TypewriterText: the effect cleanups run (reveal timer, cursor
\* interval); a timer no cleanup cleared stays pending without an instance
DisposeText(w) ==
  IF ~w.txt.mounted THEN w
  ELSE LET w1 == RevealCleanup(w) IN
       [w1 EXCEPT !.txt = NoText,
                  !.disposed.txt = TextPhase(w.txt),
                  !.orphan.reveal = @ + (IF w1.txt.revealTimer.pending THEN 1 ELSE 0),
                  !.orphan.cursorStop = @ + w1.txt.stopTimers]

\* mount of the TypewriterText of paragraph i (0-based) of the section
MountText(w, i) ==
  RunRevealEffect(
    [w EXCEPT !.txt = [NoText EXCEPT
                         !.mounted = TRUE,
                         !.para = i,
                         !.text = w.sec.content[i + 1],
                         !.cursor = (i = Len(w.sec.content) - 1)],
              !.disposed.txt = "none"])

\* TypewriterSection render: nothing but the dots while thinking; then the
\* paragraphs before currentParagraph in full and a TypewriterText, keyed by
\* its index, for paragraph currentParagraph
RenderSectionBody(w) ==
  LET s == w.sec
      wanted == /\ s.mounted
                /\ ~s.isThinking
                /\ s.currentParagraph < Len(s.content)
  IN IF wanted /\ w.txt.mounted /\ w.txt.para = s.currentParagraph THEN w
     ELSE IF wanted THEN MountText(DisposeText(w), s.currentParagraph)
     ELSE DisposeText(w)

\* mutant of ShownParagraph: only the current paragraph is rendered
ShownParagraph_OnlyCurrent(w, i) ==
  LET s == w.sec IN
  IF ~s.mounted \/ s.isThinking THEN << >>
  ELSE IF i = s.currentParagraph /\ w.txt.mounted THEN w.txt.displayedText
  ELSE << >>

\* what the section displays for paragraph i (0-based): nothing while
\* thinking; the whole paragraph when i < currentParagraph; what the
\* TypewriterText displays when i = currentParagraph; nothing beyond
ShownParagraph(w, i) ==
  LET s == w.sec IN
  IF ~s.mounted \/ s.isThinking THEN << >>
  ELSE IF i < s.currentParagraph THEN s.content[i + 1]
  ELSE IF i = s.currentParagraph /\ w.txt.mounted THEN w.txt.displayedText
  ELSE << >>

\* mutant of ThinkingCleanup: the effect returns no cleanup
ThinkingCleanup_NoClear(w) == w

\* cleanup of the thinking effect: clearTimeout(thinkingTimer)
ThinkingCleanup(w) == [w EXCEPT !.sec.thinkingTimer = NoTimer]

\* mutant of ThinkingEffect: no thinking timer is set
ThinkingEffect_NoTimer(w) == w

\* mutant of ThinkingEffect: the timer is set whatever showThinking says
ThinkingEffect_Unconditional(w) ==
  [w EXCEPT !.sec.thinkingTimer = Timer(ThinkingDuration, 0)]

\* the thinking effect
ThinkingEffect(w) ==
  IF props.showThinking
  THEN [w EXCEPT !.sec.thinkingTimer = Timer(ThinkingDuration, 0)]
  ELSE w

\* unmount of a TypewriterSection and of the TypewriterText in it
DisposeSection(w) ==
  IF ~w.sec.mounted THEN w
  ELSE LET w1 == ThinkingCleanup(DisposeText(w)) IN
       [w1 EXCEPT !.sec = NoSection,
                  !.disposed.sec = SectionPhase(w.sec),
                  !.orphan.thinking = @ + (IF w1.sec.thinkingTimer.pending THEN 1 ELSE 0),
                  !.orphan.paragraph = @ + w1.sec.paraTimers]

\* mount of a TypewriterSection for the active section
MountSection(w) ==
  RenderSectionBody(ThinkingEffect(
    [w EXCEPT !.sec = [NoSection EXCEPT
                         !.mounted = TRUE,
                         !.content = CurrentSection(w).content,
                         !.isThinking = props.showThinking],
              !.disposed.sec = "none",
              !.disposed.txt = "none"]))

(* ------------------------------ ConceptPage -------------------------- *)

\* ConceptPage render: {contentLoaded && <TypewriterSection/>} inside the
\* !quizStarted branch
RenderSection(w) ==
  LET wanted == w.pageMounted /\ ~w.quizStarted /\ w.contentLoaded
  IN IF wanted /\ ~w.sec.mounted THEN MountSection(w)
     ELSE IF ~wanted /\ w.sec.mounted THEN DisposeSection(w)
     ELSE w

RenderPage(w) == RenderCode(RenderSection(w))

\* cleanup of the effect on activeSection: clearTimeout(timer)
PageEffectCleanup(w) == [w EXCEPT !.contentTimer = NoTimer]

\* the effect on activeSection: it arms the content timer; its
\* setContentLoaded(false) and setTextCompleted(false) are updates made in a
\* passive effect, which React renders in a later task of its scheduler
PageEffect(w) == [w EXCEPT !.contentTimer = Timer(ContentLoadDelay, 0)]

\* the updates of the effect on activeSection are queued and change a flag:
\* the content timer is pending since that effect, and only its firing lets
\* contentLoaded and, after it, textCompleted become true
EffectUpdatesQueued(w) ==
  /\ w.pageMounted
  /\ w.contentTimer.pending
  /\ (w.contentLoaded \/ w.textCompleted)

\* the render of the queued updates of the effect on activeSection
RenderEffectUpdates(w) ==
  RenderPage([w EXCEPT !.contentLoaded = FALSE,
                       !.textCompleted = FALSE])

\* setActiveSection(i): nothing when i is the active section; otherwise the
\* section content, keyed by activeSection, is unmounted and mounted anew
\* with the flags of the old section, and then the effect on activeSection runs
SetActiveSection(w, i) ==
  IF i = w.activeSection THEN w
  ELSE LET w1 == DisposeCode(DisposeSection(w))
           w2 == RenderPage([w1 EXCEPT !.activeSection = i])
       IN PageEffect(PageEffectCleanup(w2))

\* the Next button: disabled={!textCompleted && !!codeExample}
NextDisabled(w) == ~w.textCompleted /\ CurrentSection(w).codeExample.present

\* mutant of handleSectionComplete: the quiz starts one section early
handleSectionComplete_QuizEarly(w) ==
  LET w1 == [w EXCEPT !.completedSections = @ \cup {w.activeSection + 1}] IN
  IF w.activeSection < Len(concept) - 2
  THEN SetActiveSection(w1, w.activeSection + 1)
  ELSE RenderPage([w1 EXCEPT !.quizStarted = TRUE])

\* handleSectionComplete
handleSectionComplete(w) ==
  LET w1 == [w EXCEPT !.completedSections = @ \cup {w.activeSection + 1}] IN
  IF w.activeSection < Len(concept) - 1
  THEN SetActiveSection(w1, w.activeSection + 1)
  ELSE RenderPage([w1 EXCEPT !.quizStarted = TRUE])

\* a new ConceptPage instance: initial state, first render, effect on activeSection
MountPage(w) ==
  PageEffect([w EXCEPT !.pageMounted = TRUE,
                       !.activeSection = 0,
                       !.completedSections = {},
                       !.quizStarted = FALSE,
                       !.contentLoaded = FALSE,
                       !.textCompleted = FALSE])

\* unmount of the ConceptPage and everything in it
DisposePage(w) ==
  LET w1 == PageEffectCleanup(DisposeCode(DisposeSection(w))) IN
  [w1 EXCEPT !.pageMounted = FALSE,
             !.contentTimer = NoTimer,
             !.orphan.content = @ + (IF w1.contentTimer.pending THEN 1 ELSE 0)]

(* ------------------------------- actions ----------------------------- *)

\* no update of the effect on activeSection waits for its render; while one
\* does, that render is the next task of the page: React's scheduler has
\* posted it already, and every timer the commit armed is 100ms or more away
Settled == ~EffectUpdatesQueued(World)

\* the counts the code leaves unbounded stay within MaxPending
Bounded(w) ==
  /\ \A k \in TimerKinds : w.orphan[k] <= MaxPending
  /\ w.code.copyTimers <= MaxPending

\* something a TypewriterSection shows or reports, and when
Event(type, para, shown, at) ==
  [type |-> type, para |-> para, shown |-> shown, at |-> at]

\* the world w1 a task leads to from w0, with what the mounted section
\* showed and reported in that task added to its events, in the order in
\* which it happens: the section leaves the thinking state, a
\* TypewriterText starts, it displays one more character, it calls
\* onComplete, the section calls onComplete
Observed(w0, w1) ==
  LET s0 == w0.sec
      s1 == w1.sec
      t0 == w0.txt
      t1 == w1.txt
      at == s1.clock
      ready    == IF s0.mounted /\ s0.isThinking /\ ~s1.isThinking
                  THEN << Event("ready", 0, << >>, at) >> ELSE << >>
      start    == IF t1.mounted /\ (~t0.mounted \/ t0.para # t1.para)
                  THEN << Event("start", t1.para, << >>, at) >> ELSE << >>
      reveal   == IF /\ t0.mounted /\ t1.mounted /\ t0.para = t1.para
                     /\ t1.displayedText # t0.displayedText
                  THEN << Event("reveal", t1.para, t1.displayedText, at) >> ELSE << >>
      complete == IF Len(s1.completedParagraphs) > Len(s0.completedParagraphs)
                  THEN LET k == s1.completedParagraphs[Len(s1.completedParagraphs)]
                       IN << Event("paragraphComplete", k, s1.content[k + 1], at) >>
                  ELSE << >>
      finished == IF s1.completions > s0.completions
                  THEN << Event("sequenceComplete", s1.currentParagraph, << >>, at) >>
                  ELSE << >>
  IN IF ~s1.mounted THEN w1
     ELSE [w1 EXCEPT !.sec.events =
             (IF s0.mounted THEN s0.events ELSE << >>)
               \o ready \o start \o reveal \o complete \o finished]

\* the step to the world a handler returns (bound once, so that it is
\* computed once)
Commit(result) ==
  \E r \in {result} : \E w \in {Observed(World, r)} :
    /\ Bounded(w)
    /\ pageMounted' = w.pageMounted
    /\ activeSection' = w.activeSection
    /\ completedSections' = w.completedSections
    /\ quizStarted' = w.quizStarted
    /\ contentLoaded' = w.contentLoaded
    /\ textCompleted' = w.textCompleted
    /\ contentTimer' = w.contentTimer
    /\ sec' = w.sec
    /\ txt' = w.txt
    /\ code' = w.code
    /\ orphan' = w.orphan
    /\ disposed' = w.disposed
    /\ UNCHANGED <<concept, props, fmt, demo, quiz>>

\* the page is open on its first section, just mounted
Init ==
  /\ concept \in Concepts
  /\ props = ConceptPageProps
  /\ pageMounted = TRUE
  /\ activeSection = 0
  /\ completedSections = {}
  /\ quizStarted = FALSE
  /\ contentLoaded = FALSE
  /\ textCompleted = FALSE
  /\ contentTimer = Timer(ContentLoadDelay, 0)
  /\ sec = NoSection
  /\ txt = NoText
  /\ code = NoCodeInstance
  /\ orphan = NoOrphans
  /\ disposed = NothingDisposed
  /\ Elsewhere

\* the user opens the concept again after leaving it
OpenConcept ==
  /\ ~pageMounted
  /\ Commit(MountPage(World))

\* "Back to module", or the end of the quiz: navigate away
NavigateAway ==
  /\ Settled
  /\ pageMounted
  /\ Commit(DisposePage(World))

\* the 100ms timer of the effect on activeSection: setContentLoaded(true)
ContentTimerFire ==
  /\ Settled
  /\ contentTimer.pending
  /\ Commit(RenderPage([World EXCEPT !.contentTimer = NoTimer,
                                     !.contentLoaded = TRUE]))

\* the thinking timer: setIsThinking(false)
ThinkingTimerFire ==
  /\ Settled
  /\ sec.thinkingTimer.pending
  /\ Commit(RenderSectionBody([World EXCEPT !.sec.thinkingTimer = NoTimer,
                                            !.sec.isThinking = FALSE,
                                            !.sec.readies = @ + 1,
                                            !.sec.clock = @ + sec.thinkingTimer.delay]))

\* mutant of RevealTimerFire: the callback appends the first character again
RevealTimerFire_RepeatsFirstCharacter ==
  /\ Settled
  /\ txt.revealTimer.pending
  /\ Commit(RunRevealEffect(
       [World EXCEPT !.txt.revealTimer = NoTimer,
                     !.txt.displayedText = Append(@, txt.text[1]),
                     !.txt.currentIndex = @ + 1,
                     !.sec.clock = @ + txt.revealTimer.delay]))

\* the reveal timer of TypewriterText: the character at the index the
\* callback closed over is appended, currentIndex advances, the effect runs
RevealTimerFire ==
  /\ Settled
  /\ txt.revealTimer.pending
  /\ Commit(RunRevealEffect(
       [World EXCEPT !.txt.revealTimer = NoTimer,
                     !.txt.displayedText = Append(@, txt.text[txt.revealTimer.idx + 1]),
                     !.txt.currentIndex = @ + 1,
                     !.sec.clock = @ + txt.revealTimer.delay]))

\* the inter-paragraph timer of a mounted section: setCurrentParagraph(prev => prev + 1)
ParagraphTimerFire ==
  /\ Settled
  /\ sec.paraTimers > 0
  /\ Commit(RenderSectionBody([World EXCEPT !.sec.paraTimers = @ - 1,
                                            !.sec.currentParagraph = @ + 1,
                                            !.sec.clock = @ + TimeoutDelay(props.paragraphDelay)]))

\* the cursor interval (armed while cursor && showCursor): setShowCursor(prev => !prev)
CursorBlink ==
  /\ Settled
  /\ txt.mounted /\ txt.cursor /\ txt.showCursor
  /\ Commit([World EXCEPT !.txt.showCursor = ~@])

\* the cursor-stop timer of a mounted text: setShowCursor(false)
CursorStopFire ==
  /\ Settled
  /\ txt.stopTimers > 0
  /\ Commit([World EXCEPT !.txt.stopTimers = @ - 1,
                          !.txt.showCursor = FALSE])

\* the reveal timer of TypewriterCodeExample
CodeRevealTimerFire ==
  /\ Settled
  /\ code.revealTimer.pending
  /\ Commit(RunCodeRevealEffect(
       [World EXCEPT !.code.revealTimer = NoTimer,
                     !.code.displayedCode = Append(@, code.example[code.revealTimer.idx + 1]),
                     !.code.currentIndex = @ + 1]))

\* handleCopy: setCopied(true); setTimeout(() => setCopied(false), 2000)
ClickCopy ==
  /\ Settled
  /\ code.mounted
  /\ Commit([World EXCEPT !.code.copied = TRUE,
                          !.code.copyTimers = @ + 1])

\* the copy-feedback timer of a mounted code example: setCopied(false)
CopyTimerFire ==
  /\ Settled
  /\ code.copyTimers > 0
  /\ Commit([World EXCEPT !.code.copyTimers = @ - 1,
                          !.code.copied = FALSE])

\* a timer whose instance is unmounted fires: React drops the state update
OrphanTimerFire ==
  \E k \in TimerKinds :
    /\ orphan[k] > 0
    /\ Commit([World EXCEPT !.orphan[k] = @ - 1])

\* React's scheduler renders the updates the effect on activeSection queued
EffectUpdatesRender ==
  /\ EffectUpdatesQueued(World)
  /\ Commit(RenderEffectUpdates(World))

\* a tab of the section navigation: setActiveSection(index)
ClickSectionTab ==
  \E i \in 0..(Len(concept) - 1) :
    /\ Settled
    /\ pageMounted /\ ~quizStarted
    /\ i # activeSection
    /\ Commit(SetActiveSection(World, i))

\* Previous: disabled on the first section
ClickPrevious ==
  /\ Settled
  /\ pageMounted /\ ~quizStarted
  /\ activeSection # 0
  /\ Commit(SetActiveSection(World, activeSection - 1))

\* Next Section / Start Quiz
ClickNext ==
  /\ Settled
  /\ pageMounted /\ ~quizStarted
  /\ ~NextDisabled(World)
  /\ Commit(handleSectionComplete(World))

Next ==
  \/ OpenConcept
  \/ NavigateAway
  \/ ContentTimerFire
  \/ ThinkingTimerFire
  \/ RevealTimerFire
  \/ ParagraphTimerFire
  \/ CursorBlink
  \/ CursorStopFire
  \/ CodeRevealTimerFire
  \/ ClickCopy
  \/ CopyTimerFire
  \/ OrphanTimerFire
  \/ ClickSectionTab
  \/ ClickPrevious
  \/ ClickNext
  \/ EffectUpdatesRender

Spec == Init /\ [][Next]_vars

TypeOK ==
  /\ concept \in [1..NumSections -> SectionData]
  /\ activeSection \in 0..(NumSections - 1)
  /\ completedSections \subseteq 1..NumSections
  /\ \A k \in TimerKinds : orphan[k] \in 0..MaxPending
  /\ txt.currentIndex \in 0..MaxLen
  /\ sec.currentParagraph \in 0..MaxParas

\* concepts whose sections all carry the same data
UniformConcepts == { [i \in 1..NumSections |-> d] : d \in SectionData }

\* the page is open on a uniform concept
InitUniform == Init /\ concept \in UniformConcepts

\* a pending timer of a mounted instance fires in the end (browser event
\* loop), and so does the render React has scheduled; the behaviours of Spec
\* on the uniform concepts
FairSpec ==
  /\ InitUniform
  /\ [][Next]_vars
  /\ WF_vars(ContentTimerFire)
  /\ WF_vars(ThinkingTimerFire)
  /\ WF_vars(RevealTimerFire)
  /\ WF_vars(ParagraphTimerFire)
  /\ WF_vars(CodeRevealTimerFire)
  /\ WF_vars(EffectUpdatesRender)

(* ------------------- a TypewriterSection on a host page --------------- *)

\* TypewriterDemo: the props of its TypewriterSection
DemoProps ==
  [speed |-> 25, paragraphDelay |-> 800, showThinking |-> TRUE,
   codeSpeed |-> 1, codeDelay |-> 500]

\* a section with 10ms per character, 100ms between paragraphs, no thinking
ScenarioProps ==
  [speed |-> 10, paragraphDelay |-> 100, showThinking |-> FALSE,
   codeSpeed |-> 1, codeDelay |-> 500]

\* the paragraphs "A", "BC"
ScenarioContent == << <<"A">>, <<"B", "C">> >>

\* the empty string
EmptyText == << >>

\* the props a host may hand to a TypewriterSection: those of ConceptPage,
\* of TypewriterDemo and of the scenario, each with and without thinking
HostProps ==
  { [p EXCEPT !.showThinking = t] :
      p \in {ConceptPageProps, DemoProps, ScenarioProps}, t \in BOOLEAN }

\* the content a host may hand to a TypewriterSection: any string[], an
\* empty string in it included
HostContents ==
  Contents \cup {ScenarioContent, <<EmptyText>>, <<Paragraph(2), EmptyText>>}

\* a host page (as TypewriterDemo) that has not mounted its section yet
HostInit ==
  /\ \E c \in HostContents :
       concept = [i \in 1..NumSections |-> [content |-> c, codeExample |-> NoCode]]
  /\ props \in HostProps
  /\ pageMounted = FALSE
  /\ activeSection = 0
  /\ completedSections = {}
  /\ quizStarted = FALSE
  /\ contentLoaded = FALSE
  /\ textCompleted = FALSE
  /\ contentTimer = NoTimer
  /\ sec = NoSection
  /\ txt = NoText
  /\ code = NoCodeInstance
  /\ orphan = NoOrphans
  /\ disposed = NothingDisposed
  /\ Elsewhere

\* the host renders the TypewriterSection ("Start", or the timer of "Replay")
HostMount ==
  /\ ~pageMounted
  /\ ~sec.mounted
  /\ Commit(MountSection([World EXCEPT !.textCompleted = FALSE]))

\* the host stops rendering the TypewriterSection ("Replay", another demo)
HostUnmount ==
  /\ ~pageMounted
  /\ sec.mounted
  /\ Commit(DisposeSection(World))

HostNext ==
  \/ HostMount
  \/ HostUnmount
  \/ ThinkingTimerFire
  \/ RevealTimerFire
  \/ ParagraphTimerFire
  \/ CursorBlink
  \/ CursorStopFire
  \/ OrphanTimerFire

HostSpec == HostInit /\ [][HostNext]_vars

\* props with a negative per-character delay, a negative inter-paragraph
\* delay, or both
InvalidProps ==
  { [ScenarioProps EXCEPT !.speed = s, !.paragraphDelay = d, !.showThinking = t] :
      s \in {-1, 10}, d \in {-1, 100}, t \in BOOLEAN } \ HostProps

\* a host page that is about to mount a TypewriterSection with props of
\* the set P
HostStart(P) ==
  /\ \E c \in HostContents :
       concept = [i \in 1..NumSections |-> [content |-> c, codeExample |-> NoCode]]
  /\ props \in P
  /\ pageMounted = FALSE
  /\ activeSection = 0
  /\ completedSections = {}
  /\ quizStarted = FALSE
  /\ contentLoaded = FALSE
  /\ textCompleted = FALSE
  /\ contentTimer = NoTimer
  /\ sec = NoSection
  /\ txt = NoText
  /\ code = NoCodeInstance
  /\ orphan = NoOrphans
  /\ disposed = NothingDisposed
  /\ Elsewhere

\* the host hands the section a negative delay
InvalidHostInit == HostStart(InvalidProps)

InvalidHostSpec == InvalidHostInit /\ [][HostNext]_vars

(* --------------------------- contentToParagraphs --------------------- *)

\* most lines of a sample content
MaxLines == 3

NewLine == "\n"

Space == " "

\* the marker of bold text, "**"
Bold == <<"*", "*">>

\* the marker of a bullet line, "- "
Dash == <<"-", Space>>

\* the bullet glyph U+2022, one character
Glyph == "(U+2022)"

\* s.split('\n')
RECURSIVE Split(_)
Split(s) ==
  IF \A k \in 1..Len(s) : s[k] # NewLine THEN << s >>
  ELSE LET k == CHOOSE k \in 1..Len(s) :
                  s[k] = NewLine /\ \A j \in 1..(k - 1) : s[j] # NewLine
       IN << SubSeq(s, 1, k - 1) >> \o Split(SubSeq(s, k + 1, Len(s)))

RECURSIVE TrimStart(_)
TrimStart(s) == IF s # << >> /\ s[1] = Space THEN TrimStart(Tail(s)) ELSE s

RECURSIVE TrimEnd(_)
TrimEnd(s) ==
  IF s # << >> /\ s[Len(s)] = Space THEN TrimEnd(SubSeq(s, 1, Len(s) - 1)) ELSE s

\* s.trim()
Trim(s) == TrimEnd(TrimStart(s))

\* s.startsWith(p)
StartsWith(s, p) == Len(s) >= Len(p) /\ SubSeq(s, 1, Len(p)) = p

\* s.endsWith(p)
EndsWith(s, p) == Len(s) >= Len(p) /\ SubSeq(s, Len(s) - Len(p) + 1, Len(s)) = p

\* s.substring(n)
Substring(s, n) == SubSeq(s, n + 1, Len(s))

\* s.replace(/\*\*/g, ''): the matches are taken from the left, without overlap
RECURSIVE StripBold(_)
StripBold(s) ==
  IF Len(s) < 2 THEN s
  ELSE IF StartsWith(s, Bold) THEN StripBold(Substring(s, 2))
  ELSE << s[1] >> \o StripBold(Tail(s))

\* if (currentParagraph) { paragraphs.push(currentParagraph.trim()) }
PushCurrent(acc) ==
  IF acc.currentParagraph # << >>
  THEN Append(acc.paragraphs, Trim(acc.currentParagraph))
  ELSE acc.paragraphs

\* mutant of FormatLine: a bullet line does not close the paragraph that
\* accumulates
FormatLine_BulletLeavesOpen(acc, line) ==
  LET t == Trim(line) IN
  IF StartsWith(t, Bold) /\ EndsWith(t, Bold)
  THEN [paragraphs |-> Append(PushCurrent(acc), StripBold(t)),
        currentParagraph |-> << >>]
  ELSE IF StartsWith(t, Dash)
  THEN [paragraphs |-> Append(acc.paragraphs,
                              << Glyph, Space >> \o StripBold(Substring(t, 2))),
        currentParagraph |-> acc.currentParagraph]
  ELSE IF t # << >>
  THEN [paragraphs |-> acc.paragraphs,
        currentParagraph |->
          (IF acc.currentParagraph # << >>
           THEN Append(acc.currentParagraph, Space) ELSE << >>) \o StripBold(t)]
  ELSE acc

\* the body of the loop over the lines: a header, a bullet or a regular line
FormatLine(acc, line) ==
  LET t == Trim(line) IN
  IF StartsWith(t, Bold) /\ EndsWith(t, Bold)
  THEN [paragraphs |-> Append(PushCurrent(acc), StripBold(t)),
        currentParagraph |-> << >>]
  ELSE IF StartsWith(t, Dash)
  THEN [paragraphs |-> Append(PushCurrent(acc),
                              << Glyph, Space >> \o StripBold(Substring(t, 2))),
        currentParagraph |-> << >>]
  ELSE IF t # << >>
  THEN [paragraphs |-> acc.paragraphs,
        currentParagraph |->
          (IF acc.currentParagraph # << >>
           THEN Append(acc.currentParagraph, Space) ELSE << >>) \o StripBold(t)]
  ELSE acc

\* for (const line of lines)
RECURSIVE FormatLines(_, _)
FormatLines(acc, lines) ==
  IF lines = << >> THEN acc
  ELSE FormatLines(FormatLine(acc, Head(lines)), Tail(lines))

\* a line that is not blank: filter(line => line.trim())
NotBlank(line) == Trim(line) # << >>

\* paragraphs.filter(p => p.length > 0)
NotEmpty(p) == Len(p) > 0

\* mutant of contentToParagraphs: the result is not filtered
contentToParagraphs_NoFilter(content) ==
  LET lines == SelectSeq(Split(content), NotBlank)
      acc   == FormatLines([paragraphs |-> << >>, currentParagraph |-> << >>], lines)
  IN PushCurrent(acc)

\* contentToParagraphs
contentToParagraphs(content) ==
  LET lines == SelectSeq(Split(content), NotBlank)
      acc   == FormatLines([paragraphs |-> << >>, currentParagraph |-> << >>], lines)
  IN SelectSeq(PushCurrent(acc), NotEmpty)

\* lines of section content: blank, regular, header, bullet, with bold
\* markers in several places
SampleLines ==
  { << >>, << Space >>, << "a" >>, << Space, "b", Space >>,
    << "a", "*", "*", "b" >>, << "*", Space, "a" >>,
    << "*", "*", "a", "*", "*" >>, << "*", "*", "*", "*" >>,
    << "*", "*", Space, "*", "*" >>, << "*", "*", "a" >>,
    << "-", Space, "a" >>, << Space, "-", Space, "*", "*", "a", "*", "*" >>,
    << "-", "a" >>, << "-", Space, "*", "*" >> }

\* lines.join('\n')
RECURSIVE Join(_)
Join(lines) ==
  IF lines = << >> THEN << >>
  ELSE IF Len(lines) = 1 THEN lines[1]
  ELSE lines[1] \o << NewLine >> \o Join(Tail(lines))

\* the contents handed to contentToParagraphs: up to MaxLines sample lines
SampleContents ==
  { Join(l) : l \in UNION { [1..n -> SampleLines] : n \in 0..MaxLines } }

\* no ConceptPage, no section, no timer
PageClosed ==
  /\ concept = [i \in 1..NumSections |-> [content |-> << >>, codeExample |-> NoCode]]
  /\ props = ConceptPageProps
  /\ pageMounted = FALSE
  /\ activeSection = 0
  /\ completedSections = {}
  /\ quizStarted = FALSE
  /\ contentLoaded = FALSE
  /\ textCompleted = FALSE
  /\ contentTimer = NoTimer
  /\ sec = NoSection
  /\ txt = NoText
  /\ code = NoCodeInstance
  /\ orphan = NoOrphans
  /\ disposed = NothingDisposed

\* the variables of the ConceptPage and the typewriter components
pageVars == <<concept, props, pageMounted, activeSection, completedSections,
              quizStarted, contentLoaded, textCompleted, contentTimer,
              sec, txt, code, orphan, disposed>>

\* contentToParagraphs is about to be called on a sample content
FormatInit ==
  /\ PageClosed
  /\ demo = NoDemo
  /\ quiz = NoQuiz
  /\ \E c \in SampleContents : fmt = [NoFormat EXCEPT !.content = c]

\* the call returns
CallContentToParagraphs ==
  /\ ~fmt.returned
  /\ fmt' = [fmt EXCEPT !.returned = TRUE,
                        !.paragraphs = contentToParagraphs(fmt.content)]
  /\ UNCHANGED <<pageVars, demo, quiz>>

FormatNext == CallContentToParagraphs

FormatSpec == FormatInit /\ [][FormatNext]_vars

(* ------------- TypewriterCodeExample whose example changes ----------- *)

\* the codes a host hands to one TypewriterCodeExample: none, one character,
\* the longest
HostCodes == { << >>, << CodeText[1] >>, CodeText }

\* most changes of example.code on one instance
MaxChanges == 2

\* a host page before it mounts the code example
CodeHostInit == PageClosed /\ Elsewhere

\* the host mounts <TypewriterCodeExample example={y}/>
CodeHostMount ==
  /\ ~code.mounted
  /\ \E y \in HostCodes :
       Commit(RunCodeRevealEffect(
         [World EXCEPT !.code = [NoCodeInstance EXCEPT !.mounted = TRUE,
                                                       !.example = y],
                       !.disposed.code = "none"]))

\* the host renders the mounted instance with another example.code: the
\* cleanup of the reveal effect, the reset effect and the reveal effect run
\* on the state of that render; the updates of the reset effect are queued
\* before setIsComplete(true) of the reveal effect, and the render of the
\* queued updates runs the reveal effect again when a dependency changed
SetExampleCode(w, y) ==
  LET seen     == [CodeRevealCleanup(w) EXCEPT !.code.example = y,
                                               !.code.changes = @ + 1]
      revealed == CodeRevealEffect(seen)
      reported == revealed.code.completions # seen.code.completions
      queued   == [revealed EXCEPT !.code.displayedCode = << >>,
                                   !.code.currentIndex = 0,
                                   !.code.isComplete = reported]
  IN IF /\ queued.code.currentIndex = w.code.currentIndex
        /\ queued.code.isComplete = w.code.isComplete
     THEN queued
     ELSE RunCodeRevealEffect(queued)

CodeHostChange ==
  /\ code.mounted
  /\ code.changes < MaxChanges
  /\ \E y \in HostCodes \ {code.example} : Commit(SetExampleCode(World, y))

\* the host unmounts the code example
CodeHostUnmount ==
  /\ code.mounted
  /\ Commit(DisposeCode(World))

CodeHostNext ==
  \/ CodeHostMount
  \/ CodeHostChange
  \/ CodeHostUnmount
  \/ CodeRevealTimerFire
  \/ ClickCopy
  \/ CopyTimerFire
  \/ OrphanTimerFire

CodeHostSpec == CodeHostInit /\ [][CodeHostNext]_vars

(* ------------------------------ TypewriterDemo ----------------------- *)

\* the three demos of the page
DemoNames == {"simple", "thinking", "code"}

\* most replay timers pending at once
MaxReplays == 2

\* the delay of the replay timer, in ms
ReplayDelay == 100

\* the timer of resetDemo(demoName); live while the page instance that
\* scheduled it is mounted
ReplayTimer(demoName) == [demoName |-> demoName, delay |-> ReplayDelay, live |-> TRUE]

\* the TypewriterDemo page is open, no demo started
DemoInit ==
  /\ PageClosed
  /\ fmt = NoFormat
  /\ quiz = NoQuiz
  /\ demo = [NoDemo EXCEPT !.mounted = TRUE]

\* the route to the demo page is opened again
OpenDemo ==
  /\ ~demo.mounted
  /\ demo' = [demo EXCEPT !.mounted = TRUE, !.activeDemo = "null", !.lastClick = "null"]
  /\ UNCHANGED <<pageVars, fmt, quiz>>

\* "Back to Platform": the page is unmounted; resetDemo never clears its timer
LeaveDemo ==
  /\ demo.mounted
  /\ demo' = [demo EXCEPT
                !.mounted = FALSE,
                !.activeDemo = "null",
                !.lastClick = "null",
                !.replayTimers = [k \in 1..Len(@) |-> [@[k] EXCEPT !.live = FALSE]]]
  /\ UNCHANGED <<pageVars, fmt, quiz>>

\* a Start button, shown while its demo is not the active one:
\* setActiveDemo(demoName)
ClickStart ==
  \E d \in DemoNames :
    /\ demo.mounted
    /\ demo.activeDemo # d
    /\ demo' = [demo EXCEPT !.activeDemo = d, !.lastClick = d]
    /\ UNCHANGED <<pageVars, fmt, quiz>>

\* resetDemo(demoName): setActiveDemo(null) and a timer of 100ms
resetDemo(dm, demoName) ==
  [dm EXCEPT !.activeDemo = "null",
             !.replayTimers = Append(@, ReplayTimer(demoName)),
             !.lastClick = demoName]

\* a Replay button
ClickReplay ==
  \E d \in DemoNames :
    /\ demo.mounted
    /\ Len(demo.replayTimers) < MaxReplays
    /\ demo' = resetDemo(demo, d)
    /\ UNCHANGED <<pageVars, fmt, quiz>>

\* the oldest replay timer fires (all have the same delay):
\* setActiveDemo(demoName), which React drops when the page is unmounted
ReplayTimerFire ==
  /\ demo.replayTimers # << >>
  /\ demo' = [demo EXCEPT
                !.replayTimers = Tail(@),
                !.activeDemo = IF demo.replayTimers[1].live
                               THEN demo.replayTimers[1].demoName ELSE @]
  /\ UNCHANGED <<pageVars, fmt, quiz>>

DemoNext ==
  \/ OpenDemo
  \/ LeaveDemo
  \/ ClickStart
  \/ ClickReplay
  \/ ReplayTimerFire

DemoSpec == DemoInit /\ [][DemoNext]_vars

(* ------------------------------- QuizSection ------------------------- *)

\* most questions of a quiz
MaxQuestions == 2

\* the options of a question
NumOptions == 2

\* selectedAnswer === null
NoAnswer == -1

\* the quizzes of a concept: not empty, each question with its correctAnswer
Quizzes ==
  UNION { [1..n -> [correctAnswer : 0..(NumOptions - 1)]] : n \in 1..MaxQuestions }

\* ConceptPage shows the QuizSection of a concept
QuizInit ==
  /\ PageClosed
  /\ fmt = NoFormat
  /\ demo = NoDemo
  /\ \E q \in Quizzes : quiz = [NoQuiz EXCEPT !.mounted = TRUE, !.quiz = q]

\* the content of the question, keyed by currentQuestion, is on the page;
\* under AnimatePresence mode="wait" it appears when the question shown
\* before has left
QuestionShown(q) == q.mounted /\ ~q.exiting

\* an option button: disabled={showResult}
OptionDisabled(q) == q.showResult

\* the Submit Answer button is rendered
SubmitShown(q) == ~q.showResult

\* the Submit Answer button: disabled={selectedAnswer === null}
SubmitDisabled(q) == q.selectedAnswer = NoAnswer

\* mutant of NextShown: the Next button is rendered before the submission too
NextShown_Always(q) == TRUE

\* the Next Question / Complete Quiz button is rendered
NextShown(q) == q.showResult

\* handleAnswerSelect
handleAnswerSelect(q, index) ==
  IF ~q.showResult THEN [q EXCEPT !.selectedAnswer = index] ELSE q

\* mutant of handleSubmit: every submission scores
handleSubmit_ScoresEvery(q) ==
  IF q.selectedAnswer = NoAnswer THEN q
  ELSE [q EXCEPT !.showResult = TRUE,
                 !.score = q.score + 1,
                 !.answers = Append(q.answers, q.selectedAnswer),
                 !.submits = Append(@, q.currentQuestion)]

\* handleSubmit; submits records which question was submitted
handleSubmit(q) ==
  IF q.selectedAnswer = NoAnswer THEN q
  ELSE [q EXCEPT !.showResult = TRUE,
                 !.score = IF q.selectedAnswer = q.quiz[q.currentQuestion + 1].correctAnswer
                           THEN q.score + 1 ELSE q.score,
                 !.answers = Append(q.answers, q.selectedAnswer),
                 !.submits = Append(@, q.currentQuestion)]

\* onComplete of the ConceptPage: alert, then navigate to the module page,
\* which unmounts the quiz
onQuizComplete(q) == [q EXCEPT !.completions = @ + 1, !.mounted = FALSE, !.exiting = FALSE]

\* handleNext of the render in which currentQuestion was k
handleNext(q, k) ==
  IF k < Len(q.quiz) - 1
  THEN [q EXCEPT !.currentQuestion = k + 1,
                 !.selectedAnswer = NoAnswer,
                 !.showResult = FALSE,
                 !.exiting = TRUE]
  ELSE onQuizComplete(q)

\* the quiz is started again after it was left
MountQuiz ==
  /\ ~quiz.mounted
  /\ quiz' = [NoQuiz EXCEPT !.mounted = TRUE, !.quiz = quiz.quiz]
  /\ UNCHANGED <<pageVars, fmt, demo>>

\* "Back to module": the page with the quiz is unmounted
LeaveQuiz ==
  /\ quiz.mounted
  /\ quiz' = [quiz EXCEPT !.mounted = FALSE, !.exiting = FALSE]
  /\ UNCHANGED <<pageVars, fmt, demo>>

\* an option button of the question shown
ClickOption ==
  \E index \in 0..(NumOptions - 1) :
    /\ QuestionShown(quiz)
    /\ ~OptionDisabled(quiz)
    /\ quiz' = handleAnswerSelect(quiz, index)
    /\ UNCHANGED <<pageVars, fmt, demo>>

\* the Submit Answer button
ClickSubmit ==
  /\ QuestionShown(quiz)
  /\ SubmitShown(quiz)
  /\ ~SubmitDisabled(quiz)
  /\ quiz' = handleSubmit(quiz)
  /\ UNCHANGED <<pageVars, fmt, demo>>

\* the Next Question / Complete Quiz button
ClickNextQuestion ==
  /\ QuestionShown(quiz)
  /\ NextShown(quiz)
  /\ quiz' = handleNext(quiz, quiz.currentQuestion)
  /\ UNCHANGED <<pageVars, fmt, demo>>

\* the Next Question button of the question that is leaving, still on the
\* page during its exit animation with the handler of its last render
ClickLeavingNext ==
  /\ quiz.mounted
  /\ quiz.exiting
  /\ quiz' = handleNext(quiz, quiz.currentQuestion - 1)
  /\ UNCHANGED <<pageVars, fmt, demo>>

\* the exit animation of the question shown before ends (0.3s)
ExitAnimationEnd ==
  /\ quiz.mounted
  /\ quiz.exiting
  /\ quiz' = [quiz EXCEPT !.exiting = FALSE]
  /\ UNCHANGED <<pageVars, fmt, demo>>

QuizNext ==
  \/ MountQuiz
  \/ LeaveQuiz
  \/ ClickOption
  \/ ClickSubmit
  \/ ClickNextQuestion
  \/ ClickLeavingNext
  \/ ExitAnimationEnd

QuizSpec == QuizInit /\ [][QuizNext]_vars

(* -------------------------------- claims ----------------------------- *)

\* <<0, 1, ..., k>>, the paragraph indices up to k; empty for k = -1
UpTo(k) == [i \in 1..(k + 1) |-> i - 1]

\* the text has called onComplete once and shows its whole source text
TextDone(t) ==
  /\ t.isComplete
  /\ t.completions = 1
  /\ t.displayedText = t.text

\* C1: from every state of a mounted TypewriterText with a non-empty text,
\* before or after its completion, the text is unmounted or a state follows
\* in which it has invoked onComplete exactly once and displays the whole
\* source text.
C1_TextCompletesExactlyOnce ==
  (txt.mounted /\ Len(txt.text) > 0) ~> (~txt.mounted \/ TextDone(txt))

\* a text of several characters is complete and has reported it once
C1_Witness ==
  /\ txt.mounted
  /\ Len(txt.text) >= 2
  /\ TextDone(txt)

\* the section has completed exactly the paragraphs before the current one,
\* in input order, and also the current one when its text is complete; the
\* text that is revealing is the one of the current paragraph
InInputOrder(s, t) ==
  s.mounted =>
    /\ s.completedParagraphs \in {UpTo(s.currentParagraph - 1), UpTo(s.currentParagraph)}
    /\ t.mounted =>
         /\ t.para = s.currentParagraph
         /\ t.text = s.content[s.currentParagraph + 1]
         /\ t.isComplete <=> (s.completedParagraphs = UpTo(s.currentParagraph))

\* the step keeps the key of the section content, key={activeSection}: the
\* instances under another key are other instances
SameKey == activeSection' = activeSection

\* C2: a TypewriterSection reveals its paragraphs strictly in input order:
\* the current paragraph changes only to the next one, only when the current
\* one is complete and the inter-paragraph timer scheduled at its completion
\* fires; no paragraph is skipped or completed twice.
C2_StrictInputOrder ==
  [][ /\ InInputOrder(sec', txt')
      /\ (sec.mounted /\ sec'.mounted /\ SameKey
            /\ sec'.currentParagraph # sec.currentParagraph) =>
           /\ sec'.currentParagraph = sec.currentParagraph + 1
           /\ sec.currentParagraph + 1 < Len(sec.content)
           /\ txt.mounted /\ txt.isComplete
           /\ sec.completedParagraphs = UpTo(sec.currentParagraph)
           /\ sec.paraTimers = 1 /\ sec'.paraTimers = 0
           /\ txt'.mounted /\ txt'.displayedText = << >> ]_vars

\* the second paragraph reveals after the first completed
C2_Witness ==
  /\ sec.mounted
  /\ sec.currentParagraph = 1
  /\ sec.completedParagraphs = <<0>>
  /\ txt.mounted /\ txt.para = 1 /\ txt.currentIndex = 1

\* C3: for a non-empty paragraph list the section invokes its onComplete at
\* most once, and has invoked it exactly when the last paragraph has
\* completed; while the timer towards the next paragraph is pending it has
\* not invoked it.
C3_SectionCompletesOnceAfterLast ==
  (sec.mounted /\ Len(sec.content) > 0) =>
    /\ sec.completions <= 1
    /\ sec.completions = 1 <=> sec.completedParagraphs = UpTo(Len(sec.content) - 1)
    /\ sec.paraTimers > 0 => sec.completions = 0
    /\ sec.currentParagraph < Len(sec.content) - 1 => sec.completions = 0

\* a section of several paragraphs has completed
C3_Witness ==
  /\ sec.mounted
  /\ Len(sec.content) >= 2
  /\ sec.completions = 1
  /\ sec.completedParagraphs = UpTo(Len(sec.content) - 1)

\* the active section has a code example
HasCode == CurrentSection(World).codeExample.present

\* the Next button is shown and enabled
NextEnabled == pageMounted /\ ~quizStarted /\ ~NextDisabled(World)

\* the text sequence mounted for the active section has fired its onComplete
ActiveTextSequenceComplete ==
  /\ sec.mounted
  /\ sec.content = CurrentSection(World).content
  /\ sec.completions >= 1

\* C4: on every section, with or without a code example, Next is disabled
\* until the text sequence of the active section has fired its onComplete.
C4_NextGatedOnTextAlways ==
  (pageMounted /\ ~quizStarted /\ ~ActiveTextSequenceComplete) => ~NextEnabled

\* C5: on a section with a code example Next stays disabled until the code
\* example's own reveal has completed.
C5_NextGatedOnCodeReveal ==
  (HasCode /\ NextEnabled) => (code.mounted /\ code.isComplete)

\* the timers a section that has not completed may own
IncompleteSectionTimers == {"thinking", "reveal", "paragraph"}

\* C6: after a TypewriterSection is unmounted before its sequence completed,
\* no timer that instance scheduled fires.
C6_NoCallbackAfterSectionDisposed ==
  [][\A k \in IncompleteSectionTimers : orphan'[k] >= orphan[k]]_vars

\* C7: unmounting a TypewriterText revokes its reveal timer: no reveal timer
\* is pending without a mounted text, so no further character is revealed
\* and onComplete is not invoked for the unmounted instance.
C7_RevealTimerRevoked ==
  /\ orphan["reveal"] = 0
  /\ txt.revealTimer.pending => (txt.mounted /\ ~txt.isComplete)

\* a text was unmounted in the middle of its reveal
C7_Witness ==
  /\ ~txt.mounted
  /\ disposed.txt = "revealing"

\* C8: no timer an unmounted instance scheduled is still pending.
C8_NoTimerPendingAfterUnmount ==
  \A k \in TimerKinds : orphan[k] = 0

\* C9: a TypewriterSection given an empty paragraph list has fired its
\* onComplete as soon as it is past the thinking pause.
C9_EmptyListCompletes ==
  (sec.mounted /\ sec.content = << >> /\ ~sec.isThinking) =>
    (sec.completions = 1 /\ textCompleted)

\* every paragraph is displayed in full and the sequence has completed once
JumpedToEnd ==
  /\ sec.mounted
  /\ sec.completions = 1
  /\ sec.currentParagraph = Len(sec.content) - 1
  /\ txt.mounted /\ txt.displayedText = txt.text

\* C10: at any point of an active sequence a jumpToEnd step is available: a
\* step of the program that leaves every paragraph displayed in full and the
\* sequence completed exactly once.
C10_JumpToEndAvailable ==
  (sec.mounted /\ ~sec.isThinking /\ Len(sec.content) > 0 /\ sec.completions = 0) =>
    ENABLED (Next /\ JumpedToEnd')

\* the step keeps the TypewriterText instance: a step that mounts another
\* one leaves none mounted, one of another paragraph or one under another key
SameText == txt.mounted /\ txt'.mounted /\ txt'.para = txt.para /\ SameKey

\* the step keeps the TypewriterSection instance: a step that unmounts one
\* leaves none mounted or one under another key
SameSection == sec.mounted /\ sec'.mounted /\ SameKey

\* the step keeps the TypewriterCodeExample instance
SameCode == code.mounted /\ code'.mounted /\ SameKey

\* the first n characters of a text
Prefix(text, n) == SubSeq(text, 1, n)

\* C11: in every state of a mounted TypewriterText 0 <= currentIndex <=
\* length(text) and isComplete holds exactly when currentIndex =
\* length(text); once isComplete holds it holds for as long as the instance
\* lives.
C11_IndexBoundedCompleteSticky ==
  [][ /\ txt'.mounted =>
           /\ 0 <= txt'.currentIndex
           /\ txt'.currentIndex <= Len(txt'.text)
           /\ txt'.isComplete <=> (txt'.currentIndex = Len(txt'.text))
      /\ (SameText /\ txt.isComplete) =>
           (txt'.isComplete /\ txt'.currentIndex = txt.currentIndex) ]_vars

\* a complete text lives on after its cursor was stopped
C11_Witness ==
  /\ txt.mounted
  /\ Len(txt.text) >= 2
  /\ txt.isComplete
  /\ txt.currentIndex = Len(txt.text)
  /\ txt.stopTimers = 0

\* the indices in completedParagraphs lie in 0..currentParagraph, and the
\* TypewriterText mounted is the one of paragraph currentParagraph
CompletedWithinCurrent(s, t) ==
  /\ \A k \in 1..Len(s.completedParagraphs) :
       s.completedParagraphs[k] \in 0..s.currentParagraph
  /\ t.mounted => t.para = s.currentParagraph

\* C12 as amended: currentParagraph is the index of the paragraph that is
\* revealing and stays the index of the last paragraph, length(content) - 1,
\* once the sequence is finished; it never reaches length(content) for a
\* non-empty list; every index in completedParagraphs lies in
\* 0..currentParagraph.
C12_CurrentParagraphStaysOnLast ==
  sec.mounted =>
    /\ CompletedWithinCurrent(sec, txt)
    /\ Len(sec.content) > 0 => sec.currentParagraph \in 0..(Len(sec.content) - 1)
    /\ (Len(sec.content) > 0 /\ sec.completions >= 1) =>
         sec.currentParagraph = Len(sec.content) - 1

\* the sequence of a list of several paragraphs is finished
C12_Witness ==
  /\ sec.mounted
  /\ Len(sec.content) >= 2
  /\ sec.completions >= 1
  /\ sec.currentParagraph = Len(sec.content) - 1
  /\ sec.paraTimers = 0

\* C12 as stated: currentParagraph is the index of the paragraph that is
\* revealing, or equals length(content) once the whole sequence is
\* finished; every index in completedParagraphs lies in 0..currentParagraph.
C12_CurrentParagraphReachesLength ==
  sec.mounted =>
    /\ CompletedWithinCurrent(sec, txt)
    /\ sec.completions >= 1 => sec.currentParagraph = Len(sec.content)

\* C13: what a TypewriterText and a TypewriterCodeExample display is the
\* prefix of the source text of length currentIndex; a step that changes
\* what is displayed appends exactly the next character; the source text of
\* an instance never changes.
C13_DisplayedIsGrowingPrefix ==
  [][ /\ txt'.mounted => txt'.displayedText = Prefix(txt'.text, txt'.currentIndex)
      /\ code'.mounted => code'.displayedCode = Prefix(code'.example, code'.currentIndex)
      /\ SameText =>
           /\ txt'.text = txt.text
           /\ txt'.displayedText # txt.displayedText =>
                /\ txt.currentIndex < Len(txt.text)
                /\ txt'.displayedText =
                     Append(txt.displayedText, txt.text[txt.currentIndex + 1])
      /\ SameCode =>
           /\ code'.example = code.example
           /\ code'.displayedCode # code.displayedCode =>
                /\ code.currentIndex < Len(code.example)
                /\ code'.displayedCode =
                     Append(code.displayedCode, code.example[code.currentIndex + 1]) ]_vars

\* a text displays a proper, non-empty prefix of its source text
C13_Witness ==
  /\ txt.mounted
  /\ txt.currentIndex = 1
  /\ Len(txt.text) >= 2
  /\ txt.displayedText = Prefix(txt.text, 1)

\* C14: every paragraph the section has completed is displayed in full; a
\* paragraph displayed in full stays displayed in full for as long as the
\* section instance lives, through the change to the next paragraph too.
C14_CompletedParagraphsStayShown ==
  [][ /\ sec'.mounted =>
           \A k \in 1..Len(sec'.completedParagraphs) :
             LET i == sec'.completedParagraphs[k] IN
             ShownParagraph(World', i) = sec'.content[i + 1]
      /\ SameSection =>
           \A i \in 0..(Len(sec.content) - 1) :
             (i \in {sec.completedParagraphs[k] : k \in 1..Len(sec.completedParagraphs)}) =>
               ShownParagraph(World', i) = sec.content[i + 1] ]_vars

\* the second paragraph reveals while the first is displayed in full
C14_Witness ==
  /\ sec.mounted
  /\ sec.currentParagraph = 1
  /\ txt.mounted /\ txt.currentIndex = 0
  /\ ShownParagraph(World, 0) = sec.content[1]
  /\ ShownParagraph(World, 1) = << >>

\* C15: a TypewriterCodeExample is mounted, and so its reveal started, only
\* when the text sequence of the active section has fired its onComplete.
C15_CodeRevealAfterText ==
  code.mounted => (HasCode /\ textCompleted /\ ActiveTextSequenceComplete)

\* C16: the thinking timer of an unmounted TypewriterSection is revoked: no
\* thinking timer is pending without a mounted section that is thinking, and
\* without a mounted section no TypewriterText is mounted or scheduled.
C16_ThinkingTimerRevoked ==
  /\ orphan["thinking"] = 0
  /\ sec.thinkingTimer.pending => (sec.mounted /\ sec.isThinking)
  /\ ~sec.mounted => (~txt.mounted /\ ~txt.revealTimer.pending)

\* a section was unmounted during its thinking pause
C16_Witness ==
  /\ ~sec.mounted
  /\ disposed.sec = "thinking"
  /\ disposed.txt = "none"

\* C17: with thinking enabled a mounted TypewriterSection that is thinking
\* has a timer of the thinking duration pending and shows no paragraph; it
\* leaves the thinking state at most once, and once it has left it stays
\* ready; a thinking section that stays mounted becomes ready in the end.
C17_ReadyExactlyOnce ==
  /\ []((sec.mounted /\ sec.isThinking) =>
          /\ sec.readies = 0
          /\ sec.thinkingTimer = Timer(ThinkingDuration, 0)
          /\ ~txt.mounted
          /\ sec.completedParagraphs = << >>)
  /\ []((sec.mounted /\ props.showThinking /\ ~sec.isThinking) =>
          /\ sec.readies = 1
          /\ ~sec.thinkingTimer.pending)
  /\ (sec.mounted /\ sec.isThinking) ~> (~sec.mounted \/ ~sec.isThinking)

\* the section became ready and paragraph 0 starts revealing
C17_Witness ==
  /\ sec.mounted
  /\ props.showThinking
  /\ sec.readies = 1
  /\ txt.mounted /\ txt.para = 0 /\ txt.currentIndex = 0

\* a is an initial part of b
IsPrefix(a, b) == Len(a) <= Len(b) /\ a = SubSeq(b, 1, Len(a))

\* C18: with thinking disabled a mounted TypewriterSection is never in the
\* thinking state and never has a thinking timer; the first thing it does,
\* at time 0, is to start paragraph 0, and it never reports a change from
\* thinking to ready.
C18_ReadyAtStartWithoutThinking ==
  (sec.mounted /\ ~props.showThinking) =>
    /\ ~sec.isThinking
    /\ ~sec.thinkingTimer.pending
    /\ sec.readies = 0
    /\ orphan["thinking"] = 0
    /\ \A k \in 1..Len(sec.events) : sec.events[k].type # "ready"
    /\ Len(sec.content) > 0 =>
         /\ sec.events # << >>
         /\ sec.events[1] = Event("start", 0, << >>, 0)

\* a section without thinking was just mounted: paragraph 0 is scheduled
C18_Witness ==
  /\ sec.mounted
  /\ ~props.showThinking
  /\ sec.events = << Event("start", 0, << >>, 0) >>
  /\ txt.mounted /\ txt.para = 0 /\ txt.revealTimer.pending

\* the section runs the scenario: "A", "BC", 10ms, 100ms, no thinking
ScenarioRuns ==
  /\ sec.mounted
  /\ sec.content = ScenarioContent
  /\ props = ScenarioProps

\* the events of the scenario when the first character of a paragraph
\* appears d ms after the paragraph started
ScenarioEvents(d) ==
  << Event("start", 0, << >>, 0),
     Event("reveal", 0, <<"A">>, d),
     Event("paragraphComplete", 0, <<"A">>, d),
     Event("start", 1, << >>, d + 100),
     Event("reveal", 1, <<"B">>, 2 * d + 100),
     Event("reveal", 1, <<"B", "C">>, 2 * d + 110),
     Event("paragraphComplete", 1, <<"B", "C">>, 2 * d + 110),
     Event("sequenceComplete", 1, << >>, 2 * d + 110) >>

\* C19 as amended: in the scenario the events are, in this order: "A" is
\* revealed at 0ms (the first character of a paragraph waits for the
\* initial delay, 0), paragraph 0 completes, paragraph 1 starts 100ms
\* later, "B" is revealed at once, "BC" 10ms later, paragraph 1 completes,
\* the sequence completes, at 110ms.
C19_ScenarioFirstCharacterAtOnce ==
  ScenarioRuns => IsPrefix(sec.events, ScenarioEvents(DefaultDelay))

\* the scenario has run to its end
C19_Witness ==
  /\ ScenarioRuns
  /\ sec.events = ScenarioEvents(DefaultDelay)
  /\ sec.clock = 110

\* C19 as stated: in the scenario "A" is revealed 10ms after the start and
\* "B" 10ms after the 100ms wait, so that the sequence completes no earlier
\* than 120ms after the start.
C19_ScenarioFirstCharacterAfterSpeed ==
  ScenarioRuns =>
    /\ IsPrefix(sec.events, ScenarioEvents(10))
    /\ sec.completions >= 1 => sec.clock >= 120

\* C20: the timer of the first character of a TypewriterText has the initial
\* delay (0), the timer of every other character the per-character delay:
\* the first reveal of a paragraph comes the initial delay after its start,
\* every other reveal one per-character delay after the reveal before it. A
\* TypewriterText with an empty text is complete from its start, has
\* revealed nothing, has no timer and has called onComplete exactly once.
C20_CharacterDelaysAndEmptyText ==
  /\ txt.revealTimer.pending =>
       txt.revealTimer.delay =
         (IF txt.currentIndex = 0 THEN DefaultDelay ELSE props.speed)
  /\ \A k \in 2..Len(sec.events) :
       LET e == sec.events[k]
           b == sec.events[k - 1]
       IN e.type = "reveal" =>
            /\ b.type \in {"start", "reveal"}
            /\ b.para = e.para
            /\ Len(e.shown) = Len(b.shown) + 1
            /\ e.at = b.at + (IF b.type = "start" THEN DefaultDelay ELSE props.speed)
  /\ (txt.mounted /\ txt.text = EmptyText) =>
       /\ txt.isComplete
       /\ txt.completions = 1
       /\ txt.displayedText = << >>
       /\ ~txt.revealTimer.pending
       /\ sec.events[Len(sec.events) - (IF sec.completions > 0 THEN 1 ELSE 0)] =
            Event("paragraphComplete", txt.para, EmptyText, sec.clock)

\* after a paragraph of two characters an empty paragraph has completed
C20_Witness ==
  /\ txt.mounted
  /\ txt.text = EmptyText
  /\ txt.completions = 1
  /\ \E k \in 1..Len(sec.events) :
       sec.events[k].type = "reveal" /\ Len(sec.events[k].shown) = 2

\* the props carry a negative delay
HasNegativeDelay == props.speed < 0 \/ props.paragraphDelay < 0

\* C21: a TypewriterSection constructed with a negative delay is rejected:
\* it reveals nothing and schedules no reveal.
C21_NegativeDelayRejected ==
  (sec.mounted /\ HasNegativeDelay) =>
    /\ ~txt.revealTimer.pending
    /\ \A k \in 1..Len(sec.events) : sec.events[k].type # "reveal"


(* ---------------------- claims on contentToParagraphs ---------------- *)

\* the lines of the content handed to contentToParagraphs
ContentLines == Split(fmt.content)

\* a bold-delimited header line
IsHeader(line) == StartsWith(Trim(line), Bold) /\ EndsWith(Trim(line), Bold)

\* a bullet line
IsBullet(line) == ~IsHeader(line) /\ StartsWith(Trim(line), Dash)

\* a regular line: not blank, no header, no bullet
IsRegular(line) == NotBlank(line) /\ ~IsHeader(line) /\ ~IsBullet(line)

\* the number of maximal runs of non-blank lines
BlankSeparatedRuns(lines) ==
  Cardinality({ k \in 1..Len(lines) :
                  NotBlank(lines[k]) /\ (k = 1 \/ ~NotBlank(lines[k - 1])) })

\* C22: two runs of regular lines separated by blank lines are returned as
\* two paragraphs: a content of regular and blank lines only yields one
\* paragraph for each run of regular lines
C22_BlankLinesSeparate ==
  ( /\ fmt.returned
    /\ \A k \in 1..Len(ContentLines) :
         NotBlank(ContentLines[k]) => IsRegular(ContentLines[k]) )
  => Len(fmt.paragraphs) = BlankSeparatedRuns(ContentLines)

\* the text contains the bold marker
HasBold(p) == \E k \in 1..(Len(p) - 1) : p[k] = "*" /\ p[k + 1] = "*"

\* C23: no returned paragraph contains the bold marker and none is empty
C23_NoBoldNoEmpty ==
  fmt.returned =>
    \A k \in 1..Len(fmt.paragraphs) :
      ~HasBold(fmt.paragraphs[k]) /\ fmt.paragraphs[k] # << >>

\* C23 witness: a content with bold markers inside a line and with a header
\* of no text has been converted into at least two paragraphs
C23_Witness ==
  /\ fmt.returned
  /\ \E k \in 1..Len(ContentLines) :
       IsHeader(ContentLines[k]) /\ StripBold(Trim(ContentLines[k])) = << >>
  /\ \E k \in 1..Len(ContentLines) :
       IsRegular(ContentLines[k]) /\ HasBold(ContentLines[k])
  /\ Len(fmt.paragraphs) >= 2

\* the text of a header line and of a bullet line
HeaderText(line) == StripBold(Trim(line))

BulletText(line) == << Glyph, Space >> \o StripBold(Substring(Trim(line), 2))

\* the longest prefix of regular lines
RECURSIVE RegularRun(_)
RegularRun(lines) ==
  IF lines # << >> /\ IsRegular(Head(lines)) THEN 1 + RegularRun(Tail(lines)) ELSE 0

\* the regular lines of a run as one paragraph
RECURSIVE RunText(_)
RunText(lines) ==
  IF Len(lines) = 1 THEN StripBold(Trim(lines[1]))
  ELSE StripBold(Trim(lines[1])) \o << Space >> \o RunText(Tail(lines))

\* the paragraphs by runs: each header and each bullet line on its own, the
\* regular lines between them as one paragraph; a header of no text is kept
\* or dropped
RECURSIVE Segmented(_, _)
Segmented(lines, keepEmpty) ==
  IF lines = << >> THEN << >>
  ELSE IF IsHeader(Head(lines))
  THEN (IF keepEmpty \/ HeaderText(Head(lines)) # << >>
        THEN << HeaderText(Head(lines)) >> ELSE << >>)
       \o Segmented(Tail(lines), keepEmpty)
  ELSE IF IsBullet(Head(lines))
  THEN << BulletText(Head(lines)) >> \o Segmented(Tail(lines), keepEmpty)
  ELSE LET n == RegularRun(lines)
       IN << Trim(RunText(SubSeq(lines, 1, n))) >>
          \o Segmented(SubSeq(lines, n + 1, Len(lines)), keepEmpty)

\* C24: every bullet line and every header line with a text becomes a
\* paragraph of its own, in input order, and closes the paragraph of the
\* regular lines before it; a bullet's paragraph is the glyph, a space and
\* the line's text without the marker "- "
C24_BulletsAndHeadersOwnParagraphs ==
  fmt.returned =>
    fmt.paragraphs = Segmented(SelectSeq(ContentLines, NotBlank), FALSE)

\* C24 witness: regular text, then a bullet, then a header have become
\* three paragraphs
C24_Witness ==
  /\ fmt.returned
  /\ Len(ContentLines) = 3
  /\ IsRegular(ContentLines[1])
  /\ IsBullet(ContentLines[2])
  /\ IsHeader(ContentLines[3])
  /\ Len(fmt.paragraphs) = 3
  /\ fmt.paragraphs[2][1] = Glyph

\* C24 as stated: every header line, also one of no text, becomes a paragraph
C24_EveryHeaderOwnParagraph ==
  fmt.returned =>
    fmt.paragraphs = Segmented(SelectSeq(ContentLines, NotBlank), TRUE)


\* C25: a TypewriterCodeExample is never complete while it shows a proper
\* prefix of its current code, also after its example.code was changed
C25_CompleteOnlyWhenFullyRevealed ==
  (code.mounted /\ code.isComplete) => code.displayedCode = code.example


\* C26: textCompleted is true only if the text sequence mounted for the
\* active section has fired its onComplete; the code example of the active
\* section is shown, and its Next button enabled on account of
\* textCompleted, only then
C26_TextCompletedOnlyForActiveSection ==
  (pageMounted /\ ~quizStarted) =>
    /\ textCompleted => ActiveTextSequenceComplete
    /\ code.mounted => ActiveTextSequenceComplete
    /\ (HasCode /\ NextEnabled) => ActiveTextSequenceComplete


\* C27: once every pending replay timer of the TypewriterDemo has fired,
\* activeDemo is the demo of the most recent Start or Replay click
C27_LatestClickWins ==
  ( /\ demo.mounted
    /\ demo.lastClick # "null"
    /\ \A k \in 1..Len(demo.replayTimers) : ~demo.replayTimers[k].live )
  => demo.activeDemo = demo.lastClick


\* the questions 0..k-1, and question k too when it was submitted
SubmittedUpTo(k, submitted) ==
  [i \in 1..(IF submitted THEN k + 1 ELSE k) |-> i - 1]

\* the step keeps the QuizSection instance
SameQuiz == quiz.mounted /\ quiz'.mounted

\* C28: for a non-empty quiz the questions are visited in order and each is
\* submitted exactly once before the quiz advances; Next is available only
\* after the current question was submitted; a submitted answer cannot be
\* changed; onComplete is invoked only when the last question has been
\* submitted, and answers then holds one entry per question
C28_QuestionsInOrderSubmittedOnce ==
  [][ /\ quiz'.mounted =>
           /\ quiz'.currentQuestion \in 0..(Len(quiz'.quiz) - 1)
           /\ quiz'.submits = SubmittedUpTo(quiz'.currentQuestion, quiz'.showResult)
           /\ Len(quiz'.answers) = Len(quiz'.submits)
      /\ (ENABLED ClickNextQuestion) =>
           /\ quiz.showResult
           /\ quiz.submits = SubmittedUpTo(quiz.currentQuestion, TRUE)
      /\ (SameQuiz /\ quiz'.currentQuestion # quiz.currentQuestion) =>
           /\ quiz'.currentQuestion = quiz.currentQuestion + 1
           /\ quiz.showResult
      /\ (SameQuiz /\ quiz.showResult /\ quiz'.currentQuestion = quiz.currentQuestion) =>
           /\ quiz'.showResult
           /\ quiz'.selectedAnswer = quiz.selectedAnswer
           /\ quiz'.answers = quiz.answers
      /\ SameQuiz =>
           /\ Len(quiz'.answers) >= Len(quiz.answers)
           /\ SubSeq(quiz'.answers, 1, Len(quiz.answers)) = quiz.answers
      /\ (quiz.mounted /\ quiz'.completions # quiz.completions) =>
           /\ quiz'.completions = quiz.completions + 1
           /\ quiz.currentQuestion = Len(quiz.quiz) - 1
           /\ quiz.showResult
           /\ quiz'.submits = SubmittedUpTo(Len(quiz.quiz) - 1, TRUE)
           /\ Len(quiz'.answers) = Len(quiz.quiz) ]_vars

\* C28 witness: a quiz of several questions was completed, with one answer
\* recorded for each question
C28_Witness ==
  /\ ~quiz.mounted
  /\ quiz.completions = 1
  /\ Len(quiz.quiz) >= 2
  /\ Len(quiz.answers) = Len(quiz.quiz)

\* the recorded answers that match the correctAnswer of their question
CorrectAnswers(q) ==
  { k \in 1..Len(q.answers) : q.answers[k] = q.quiz[q.submits[k] + 1].correctAnswer }

\* C29: score is the number of recorded answers that match the correctAnswer
\* of their question, and 0 <= score <= submitted questions <= length(quiz)
C29_ScoreCountsCorrectAnswers ==
  (quiz.quiz # << >>) =>
    /\ Len(quiz.submits) = Len(quiz.answers)
    /\ quiz.score = Cardinality(CorrectAnswers(quiz))
    /\ 0 <= quiz.score
    /\ quiz.score <= Len(quiz.answers)
    /\ Len(quiz.answers) <= Len(quiz.quiz)

\* C29 witness: two questions were submitted, one of them with the correct
\* answer
C29_Witness ==
  /\ quiz.mounted
  /\ Len(quiz.answers) = 2
  /\ quiz.score = 1


\* the step keeps the ConceptPage instance
SamePage == pageMounted /\ pageMounted'

\* C30: activeSection stays within the sections; completedSections never
\* shrinks and grows only by the id of the active section when Next is
\* pressed on it; quizStarted becomes true only when Next is pressed on the
\* last section and never returns to false
C30_NavigationStateWellFormed ==
  [][ /\ pageMounted' => activeSection' \in 0..(Len(concept) - 1)
      /\ SamePage =>
           /\ completedSections \subseteq completedSections'
           /\ quizStarted => quizStarted'
      /\ (SamePage /\ completedSections' # completedSections) =>
           /\ ClickNext
           /\ completedSections' = completedSections \cup {activeSection + 1}
      /\ (SamePage /\ quizStarted' # quizStarted) =>
           /\ ClickNext
           /\ activeSection = Len(concept) - 1
           /\ activeSection' = activeSection ]_vars

\* C30 witness: Next was pressed on every section, the last one included:
\* the quiz has started and every section is completed
C30_Witness ==
  /\ pageMounted
  /\ quizStarted
  /\ activeSection = Len(concept) - 1
  /\ completedSections = 1..Len(concept)

=============================================================================
